---- MODULE Spec2Model ----
(***************************************************************************)
(* Model of the Wikipedia corpus extraction pipeline                       *)
(* (generate_corpus.py, article.py).                                       *)
(*                                                                         *)
(* A Python str is modelled as a sequence of characters, each character a  *)
(* TLA+ string.  ASCII characters stand for themselves; a non-ASCII        *)
(* character is written as a name ("e_acute"), and so is the backquote     *)
(* ("backtick").  A Python list is a sequence.                             *)
(***************************************************************************)
EXTENDS Integers, Sequences, FiniteSets, TLC

VARIABLES
    pc,                     \* position of the run
    document_type,          \* configuration: 'sentence' | 'paragraph' | 'article'
    mode,                   \* configuration: 'production' | 'testing'
    num_test_articles,      \* configuration: positive in testing mode, 0 (None) otherwise
    nread,                  \* number of lines read from the bz2 file so far
    line,                   \* extract_documents: the line last read, stripped
    lines,                  \* extract_documents: the accumulator of raw lines
    correct_name_space,     \* "unbound" | "True" | "False"
    is_a_redirect,          \* "unbound" | "True" | "False"
    document_storage_file,  \* the writes made to the document store, in order
    filtered_data_file,     \* the writes made to the filtered-data file (testing mode)
    flushed,                \* number of writes covered by the last flush()
    articles_extracted,
    documents_generated,
    event,                  \* history: what the last line read was to the page framing
    page_open,              \* history: a <page> was read and no </page> since
    page_lines,             \* history: the stripped lines between the last <page> and its </page>
    alternating,            \* history: start and end markers have alternated so far
    handed,                 \* history: <<data>> when the last step called Article(data), else <<>>
    wrote,                  \* history: the writes the last step made to the document store
    paragraph,              \* process_paragraph: the variable `paragraph`
    original,               \* history: the argument process_paragraph was called with
    sentences,              \* process_paragraph: the list `sentences`
    documents,              \* process_paragraph: the list it returns
    pass_no,                \* history: 2 when the normalizer is re-run on its own output
    split_i,                \* split_paragraph: the number of characters scanned (`i`, plus one)
    current_line,           \* split_paragraph: the buffer `current_line`
    split_lines,            \* split_paragraph: its list `lines`
    emitted,                \* history: <<sentence>> when the last step appended to `lines`
    article_data,           \* Article: the argument `data` of __init__
    article_paragraphs,     \* Article: what get_paragraphs returned
    paragraph_index,        \* extract_documents: the paragraphs the loop of line 522 has taken
    corpus_documents,       \* chunk_documents_to_files: the list `documents`
    documents_per_corpus_file,  \* chunk_documents_to_files: its parameter
    file_num,               \* chunk_documents_to_files: the number of files dumped so far
    corpus_files            \* the files dump_file wrote, in order

config_vars == <<document_type, mode, num_test_articles>>

stream_vars == <<nread, line, lines, correct_name_space, is_a_redirect,
                 document_storage_file, filtered_data_file, flushed,
                 articles_extracted, documents_generated,
                 event, page_open, page_lines, alternating, handed, wrote>>

paragraph_vars == <<paragraph, original, sentences, documents, pass_no>>

split_vars == <<split_i, current_line, split_lines, emitted>>

filter_vars == <<article_data, article_paragraphs, paragraph_index>>

chunk_vars == <<corpus_documents, documents_per_corpus_file, file_num, corpus_files>>

vars == <<pc, config_vars, stream_vars, paragraph_vars, split_vars, filter_vars, chunk_vars>>

\* no call of split_paragraph, Article or chunk_documents_to_files has been made
NoSplit == split_i = 0 /\ current_line = <<>> /\ split_lines = <<>> /\ emitted = <<>>

NoArticle == article_data = <<>> /\ article_paragraphs = <<>> /\ paragraph_index = 0

NoChunks ==
    /\ corpus_documents = <<>> /\ documents_per_corpus_file = 0
    /\ file_num = 0 /\ corpus_files = <<>>

-----------------------------------------------------------------------------
(* Bounds of the model *)

MaxStream == 5

MaxLen == 4

MaxTestArticles == 1

-----------------------------------------------------------------------------
(* Character classes *)

AsciiUpperSeq == <<"A","B","C","D","E","F","G","H","I","J","K","L","M",
                   "N","O","P","Q","R","S","T","U","V","W","X","Y","Z">>

AsciiLowerSeq == <<"a","b","c","d","e","f","g","h","i","j","k","l","m",
                   "n","o","p","q","r","s","t","u","v","w","x","y","z">>

AsciiUpper == {AsciiUpperSeq[k] : k \in 1..26}

AsciiLower == {AsciiLowerSeq[k] : k \in 1..26}

AsciiLetters == AsciiUpper \cup AsciiLower

AsciiDigits == {"0","1","2","3","4","5","6","7","8","9"}

\* Letters outside ASCII that the model's inputs use: (upper, lower) pairs.
NonAsciiUpper == {"E_acute"}

NonAsciiLower == {"e_acute"}

\* str.strip() and str.split() with no argument work on Unicode whitespace.
Whitespace == {" ", "\n", "\t", "\r"}

Min(S) == CHOOSE x \in S : \A y \in S : x <= y

-----------------------------------------------------------------------------
(* Python str and list operations *)

StartsWithAt(s, i, p) ==
    /\ i >= 1
    /\ i + Len(p) - 1 <= Len(s)
    /\ \A k \in 1..Len(p) : s[i + k - 1] = p[k]

startswith(s, p) == StartsWithAt(s, 1, p)

endswith(s, p) == Len(p) <= Len(s) /\ StartsWithAt(s, Len(s) - Len(p) + 1, p)

\* p in s
contains(s, p) == \E i \in 1..(Len(s) - Len(p) + 1) : StartsWithAt(s, i, p)

\* s.find(p, from), 1-based; 0 when p does not occur at or after from
find(s, p, from) ==
    LET I == {i \in from..(Len(s) - Len(p) + 1) : StartsWithAt(s, i, p)}
    IN  IF I = {} THEN 0 ELSE Min(I)

\* s[a-1:b] of Python, 1-based and inclusive here; empty when a > b
Slice(s, a, b) == IF a > b THEN <<>> ELSE SubSeq(s, a, b)

\* s.replace(old, new, 1)
replace_first(s, old, new) ==
    LET i == find(s, old, 1)
    IN  IF old = <<>> THEN new \o s
        ELSE IF i = 0 THEN s
        ELSE Slice(s, 1, i - 1) \o new \o Slice(s, i + Len(old), Len(s))

\* s.strip()
strip(s) ==
    LET I == {i \in 1..Len(s) : s[i] \notin Whitespace}
    IN  IF I = {} THEN <<>>
        ELSE Slice(s, Min(I), CHOOSE j \in I : \A k \in I : k <= j)

\* s.split(sep) for a one-character sep: empty fields are kept
RECURSIVE split_on(_,_)
split_on(s, sep) ==
    LET i == find(s, <<sep>>, 1)
    IN  IF i = 0 THEN <<s>>
        ELSE <<Slice(s, 1, i - 1)>> \o split_on(Slice(s, i + 1, Len(s)), sep)

\* s.split(): the maximal runs of non-whitespace characters; cur is the run being
\* read (the test on Len(cur), never true, makes TLC compute cur at each character)
RECURSIVE split_from(_,_,_)
split_from(s, i, cur) ==
    IF i > Len(s) \/ Len(cur) < 0 THEN (IF cur = <<>> THEN <<>> ELSE <<cur>>)
    ELSE IF s[i] \in Whitespace
         THEN (IF cur = <<>> THEN <<>> ELSE <<cur>>) \o split_from(s, i + 1, <<>>)
         ELSE split_from(s, i + 1, Append(cur, s[i]))

split(s) == split_from(s, 1, <<>>)

\* sep.join(parts)
RECURSIVE join(_,_)
join(sep, parts) ==
    IF parts = <<>> THEN <<>>
    ELSE IF Len(parts) = 1 THEN parts[1]
    ELSE parts[1] \o sep \o join(sep, Tail(parts))

\* c.lower() for one character
lower_char(c) ==
    IF c \in AsciiUpper
    THEN AsciiLowerSeq[CHOOSE k \in 1..26 : AsciiUpperSeq[k] = c]
    ELSE IF c = "E_acute" THEN "e_acute"
    ELSE c

\* s.lower()
lower(s) == [k \in 1..Len(s) |-> lower_char(s[k])]

\* token.isalpha(): non-empty and every character a (Unicode) letter
isalpha(token) ==
    /\ token # <<>>
    /\ \A k \in 1..Len(token) :
           token[k] \in AsciiLetters \cup NonAsciiUpper \cup NonAsciiLower

\* the characters of s that are not in drop: s.translate({c: '' for c in drop})
RECURSIVE translate_exclude(_,_)
translate_exclude(s, drop) ==
    IF s = <<>> THEN <<>>
    ELSE (IF Head(s) \in drop THEN <<>> ELSE <<Head(s)>>)
         \o translate_exclude(Tail(s), drop)

\* s.translate({c: ' c ' for c in pad})
RECURSIVE translate_include(_,_)
translate_include(s, pad) ==
    IF s = <<>> THEN <<>>
    ELSE (IF Head(s) \in pad THEN <<" ", Head(s), " ">> ELSE <<Head(s)>>)
         \o translate_include(Tail(s), pad)

-----------------------------------------------------------------------------
(* Regular expressions of process_paragraph.                               *)
(* A pattern is a record [kind, a, b].  match_end(pat, s, i) is the index  *)
(* of the last character of the match of pat that starts at s[i], or 0     *)
(* when pat does not match there (no pattern here matches the empty        *)
(* string).                                                                *)

Lit(p) == [kind |-> "lit", a |-> p, b |-> <<>>]

\* a|b for two literals: the first alternative is tried first
Alt(p, q) == [kind |-> "alt", a |-> p, b |-> q]

\* open.*?close : open, then as few characters as possible, then close
Span(open, close) == [kind |-> "span", a |-> open, b |-> close]

Pat(kind) == [kind |-> kind, a |-> <<>>, b |-> <<>>]

\* the index of the last character of the maximal run of digits starting at s[i]
RECURSIVE digits_end(_,_)
digits_end(s, i) ==
    IF i + 1 <= Len(s) /\ s[i + 1] \in AsciiDigits THEN digits_end(s, i + 1) ELSE i

match_end(pat, s, i) ==
    CASE pat.kind = "lit" ->
            IF StartsWithAt(s, i, pat.a) THEN i + Len(pat.a) - 1 ELSE 0
      [] pat.kind = "alt" ->
            IF StartsWithAt(s, i, pat.a) THEN i + Len(pat.a) - 1
            ELSE IF StartsWithAt(s, i, pat.b) THEN i + Len(pat.b) - 1
            ELSE 0
      [] pat.kind = "span" ->
            IF ~StartsWithAt(s, i, pat.a) THEN 0
            ELSE LET j == find(s, pat.b, i + Len(pat.a))
                 IN  IF j = 0 THEN 0 ELSE j + Len(pat.b) - 1
      \* }}[^{][^{]*?}}
      [] pat.kind = "citation" ->
            IF ~StartsWithAt(s, i, <<"}", "}">>) THEN 0
            ELSE LET J == {j \in (i + 3)..(Len(s) - 1) :
                             /\ s[j] = "}" /\ s[j + 1] = "}"
                             /\ \A k \in (i + 2)..(j - 1) : s[k] # "{"}
                 IN  IF J = {} THEN 0 ELSE Min(J) + 1
      \* ([a-zA-Z])'([a-zA-Z])
      [] pat.kind = "contraction" ->
            IF /\ i + 2 <= Len(s)
               /\ s[i] \in AsciiLetters /\ s[i + 1] = "'" /\ s[i + 2] \in AsciiLetters
            THEN i + 2 ELSE 0
      \* ([0-9]),([0-9])
      [] pat.kind = "thousands" ->
            IF /\ i + 2 <= Len(s)
               /\ s[i] \in AsciiDigits /\ s[i + 1] = "," /\ s[i + 2] \in AsciiDigits
            THEN i + 2 ELSE 0
      \* [A-Z]\.[A-Z]\.
      [] pat.kind = "initials" ->
            IF /\ i + 3 <= Len(s)
               /\ s[i] \in AsciiUpper /\ s[i + 1] = "."
               /\ s[i + 2] \in AsciiUpper /\ s[i + 3] = "."
            THEN i + 3 ELSE 0
      \* " [A-HJ-Z]\."
      [] pat.kind = "capital" ->
            IF /\ i + 2 <= Len(s)
               /\ s[i] = " " /\ s[i + 1] \in (AsciiUpper \ {"I"}) /\ s[i + 2] = "."
            THEN i + 2 ELSE 0
      \* ([0-9]+)\.[0-9]+ : both runs of digits are greedy
      [] pat.kind = "decimal" ->
            IF i > Len(s) \/ s[i] \notin AsciiDigits THEN 0
            ELSE LET d == digits_end(s, i)
                 IN  IF /\ d + 2 <= Len(s)
                        /\ s[d + 1] = "." /\ s[d + 2] \in AsciiDigits
                     THEN digits_end(s, d + 2) ELSE 0
      \* " +"
      [] pat.kind = "spaces" ->
            IF i > Len(s) \/ s[i] # " " THEN 0
            ELSE Min({j \in i..Len(s) : j = Len(s) \/ s[j + 1] # " "})

\* the replacement text of one match s[i..e]: repl, with \1 and \2 expanded
expand(pat, repl, s, i, e) ==
    CASE pat.kind \in {"contraction", "thousands"} -> <<s[i], s[e]>>
      [] pat.kind = "decimal" -> Slice(s, i, digits_end(s, i))
      [] OTHER -> repl

\* re.sub(pat, repl, s): leftmost non-overlapping matches, left to right
RECURSIVE re_sub_from(_,_,_,_)
re_sub_from(pat, repl, s, i) ==
    IF i > Len(s) THEN <<>>
    ELSE LET e == match_end(pat, s, i)
         IN  IF e = 0
             THEN <<s[i]>> \o re_sub_from(pat, repl, s, i + 1)
             ELSE expand(pat, repl, s, i, e) \o re_sub_from(pat, repl, s, e + 1)

re_sub(pat, repl, s) == re_sub_from(pat, repl, s, 1)

\* re.findall(pat, s): the matched substrings, left to right
RECURSIVE re_findall_from(_,_,_)
re_findall_from(pat, s, i) ==
    IF i > Len(s) THEN <<>>
    ELSE LET e == match_end(pat, s, i)
         IN  IF e = 0 THEN re_findall_from(pat, s, i + 1)
             ELSE <<Slice(s, i, e)>> \o re_findall_from(pat, s, e + 1)

re_findall(pat, s) == re_findall_from(pat, s, 1)

-----------------------------------------------------------------------------
(* Configuration (validate_configuration) *)

DocumentTypes == {"sentence", "paragraph", "article"}

\* the garbage marker of parameters.py
marker_garbage_processing == <<"e","v","m","p","r","o","c","e","s","s","g","a","r","b","a","g","e","m","a","r","k","e","r">>

\* the default paragraph-break marker
marker_paragraph_break ==
    <<"u","v","m","r","_","e","v","_","p","a","r","a","g","r","a","p","h","_","b","r","e","a","k">>

punctuation_exclude(dt) ==
    IF dt = "sentence"
    THEN {"#","$","&","*","+","<","=",">","@","[","\\","]","^","_","backtick","{","|","}","~","%","\""}
    ELSE {"#","$","&","*","+","<","=",">","@","[","\\","]","^","_","backtick","{","|","}","~","%"}

punctuation_include(dt) ==
    IF dt = "sentence"
    THEN {"-","(",")","/",";",",",":","!",".","?","'"}
    ELSE {"-","(",")","/",";",",",":","!",".","?","'","\""}

-----------------------------------------------------------------------------
(* process_paragraph: the Markup Normalizer *)

\* fragments[2] values after which the unit of {{convert|...}} is fragments[4]
ConvertConnectors ==
    {<<"-">>,
     <<"en_dash">>,
     <<"a","n","d">>,
     <<"a","n","d","(","-",")">>,
     <<"o","r">>,
     <<"t","o">>,
     <<"t","o","(","-",")">>,
     <<"t","o"," ","a","b","o","u","t">>,
     <<"+","/","-">>,
     <<"plus_minus">>,
     <<"+">>,
     <<",">>,
     <<","," ","a","n","d">>,
     <<","," ","o","r">>,
     <<"b","y">>,
     <<"x">>,
     <<"times">>,
     <<"x","x">>,
     <<"*">>}

\* repr(token) of Python for a str without whitespace or control characters
repr_str(t) ==
    LET dq == <<"\"">>
        sq == <<"'">>
        bs == <<"\\">>
        escaped == re_sub(Lit(bs), bs \o bs, t)
    IN  IF contains(t, sq) /\ ~contains(t, dq)
        THEN dq \o escaped \o dq
        ELSE sq \o re_sub(Lit(sq), bs \o sq, escaped) \o sq

\* str(fragments) for a list of str
RECURSIVE repr_items(_)
repr_items(fragments) ==
    IF fragments = <<>> THEN <<>>
    ELSE IF Len(fragments) = 1 THEN repr_str(fragments[1])
    ELSE repr_str(fragments[1]) \o <<",", " ">> \o repr_items(Tail(fragments))

str_list(fragments) == <<"[">> \o repr_items(fragments) \o <<"]">>

\* the substitutions of the five loops, the unit of a conversion being its third
\* fragment whether or not that is a connector
substitution_unit_third(kind, m) ==
    CASE kind = "lang" ->
            LET fragments == split_on(Slice(m, 3, Len(m) - 2), "|")
                n == Len(fragments)
            IN  IF ~contains(fragments[n], <<"=">>)
                THEN re_sub(Lit(<<"'">>), <<>>, fragments[n])
                ELSE fragments[n - 1]
      [] kind = "convert" ->
            LET fragments == split_on(Slice(m, 3, Len(m) - 2), "|")
                n == Len(fragments)
                chosen ==
                    IF n >= 3
                    THEN fragments[2] \o <<" ">> \o fragments[3]
                    ELSE IF n >= 5
                    THEN fragments[2] \o <<" ">> \o fragments[5]
                    ELSE marker_garbage_processing
            IN  translate_exclude(chosen, {"[", "]"})
      [] kind = "transl" ->
            LET fragments == split_on(Slice(m, 3, Len(m) - 2), "|")
            IN  translate_exclude(fragments[Len(fragments)], {"[", "]"})
      [] kind = "link" ->
            LET fragments == split_on(Slice(m, 3, Len(m) - 2), "|")
            IN  fragments[Len(fragments)]
      [] kind = "elink" ->
            LET fragments == split(Slice(m, 2, Len(m) - 1))
            IN  IF Len(fragments) = 1 THEN fragments[1]
                ELSE str_list(Slice(fragments, 2, Len(fragments)))

\* the substitution computed in each of the five template and link loops
substitution(kind, m) ==
    CASE kind = "lang" ->
            LET fragments == split_on(Slice(m, 3, Len(m) - 2), "|")
                n == Len(fragments)
            IN  IF ~contains(fragments[n], <<"=">>)
                THEN re_sub(Lit(<<"'">>), <<>>, fragments[n])
                ELSE fragments[n - 1]
      [] kind = "convert" ->
            LET fragments == split_on(Slice(m, 3, Len(m) - 2), "|")
                n == Len(fragments)
                chosen ==
                    IF n >= 3 /\ fragments[3] \notin ConvertConnectors
                    THEN fragments[2] \o <<" ">> \o fragments[3]
                    ELSE IF n >= 5
                    THEN fragments[2] \o <<" ">> \o fragments[5]
                    ELSE marker_garbage_processing
            IN  translate_exclude(chosen, {"[", "]"})
      [] kind = "transl" ->
            LET fragments == split_on(Slice(m, 3, Len(m) - 2), "|")
            IN  translate_exclude(fragments[Len(fragments)], {"[", "]"})
      [] kind = "link" ->
            LET fragments == split_on(Slice(m, 3, Len(m) - 2), "|")
            IN  fragments[Len(fragments)]
      [] kind = "elink" ->
            LET fragments == split(Slice(m, 2, Len(m) - 1))
            IN  IF Len(fragments) = 1 THEN fragments[1]
                ELSE str_list(Slice(fragments, 2, Len(fragments)))

\* for m in matches: paragraph = paragraph.replace(m, substitution, 1)
RECURSIVE replace_each(_,_,_)
replace_each(kind, p, matches) ==
    IF matches = <<>> THEN p
    ELSE LET q == replace_first(p, Head(matches), substitution(kind, Head(matches)))
         IN  \* the test makes TLC compute q before the next iteration
             IF Len(q) >= 0 THEN replace_each(kind, q, Tail(matches)) ELSE q

\* A step of the normalizer: one statement, or one find-and-replace loop, that
\* reassigns `paragraph`.
SubStep(pat, repl) == [op |-> "sub", pat |-> pat, repl |-> repl, drop |-> {}]

EachStep(kind, pat) == [op |-> "each", pat |-> pat, repl |-> kind, drop |-> {}]

ExcludeStep(drop) == [op |-> "exclude", pat |-> Pat("none"), repl |-> <<>>, drop |-> drop]

LowerStep == [op |-> "lower", pat |-> Pat("none"), repl |-> <<>>, drop |-> {}]

apply_step(step, p) ==
    CASE step.op = "sub" -> re_sub(step.pat, step.repl, p)
      [] step.op = "each" -> replace_each(step.repl, p, re_findall(step.pat, p))
      [] step.op = "exclude" -> translate_exclude(p, step.drop)
      [] step.op = "lower" -> lower(p)

\* the statements of steps, applied to p in order; run_next continues with
\* the paragraph q the previous statement assigned (the test on q makes TLC
\* compute it before the next statement runs)
RECURSIVE run_steps(_,_)
RECURSIVE run_next(_,_)
run_steps(steps, p) ==
    IF steps = <<>> THEN p
    ELSE run_next(Tail(steps), apply_step(Head(steps), p))

run_next(steps, q) ==
    IF Len(q) >= 0 THEN run_steps(steps, q) ELSE q

\* lines 594-654: templates, citations, escaped tags, links
MarkupSteps ==
    <<EachStep("lang", Span(<<"{","{","l","a","n","g","|">>, <<"}","}">>)),
      EachStep("convert", Span(<<"{","{","c","o","n","v","e","r","t","|">>, <<"}","}">>)),
      EachStep("transl", Span(<<"{","{","t","r","a","n","s","l","|">>, <<"}","}">>)),
      SubStep(Span(<<"&","l","t",";","r","e","f">>, <<"/","r","e","f","&","g","t",";">>), <<>>),
      SubStep(Span(<<"&","l","t">>, <<"&","g","t",";">>), <<>>),
      SubStep(Pat("citation"), <<"}","}">>),
      SubStep(Span(<<"{","{">>, <<"}","}">>), <<>>),
      SubStep(Lit(<<"(",")">>), <<>>),
      EachStep("link", Span(<<"[","[">>, <<"]","]">>)),
      EachStep("elink", Span(<<"[">>, <<"]">>))>>

\* lines 656-681: entities, quotes, contractions, digit commas, excluded punctuation
CharacterSteps(dt) ==
    <<SubStep(Alt(<<"&","a","m","p",";">>, <<"n","b","s","p",";">>), <<>>),
      SubStep(Lit(<<"&","q","u","o","t",";">>), <<"\"">>),
      SubStep(Lit(<<"'","'","'">>), <<>>),
      SubStep(Lit(<<"'","'">>), <<>>),
      SubStep(Pat("contraction"), <<>>),
      SubStep(Pat("thousands"), <<>>),
      ExcludeStep(punctuation_exclude(dt))>>

\* lines 688-696: the abbreviation table
AbbreviationSteps ==
    <<SubStep(Lit(<<"e",".","g",".">>), <<"f","o","r"," ","e","x","a","m","p","l","e">>),
      SubStep(Lit(<<"i",".","e",".">>), <<"t","h","a","t"," ","i","s">>),
      SubStep(Lit(<<"e","t","c",".">>), <<"e","t","c","e","t","e","r","a">>),
      SubStep(Lit(<<"e","t"," ","a","l",".">>), <<"a","n","d"," ","o","t","h","e","r","s">>),
      SubStep(Lit(<<"m","r",".">>), <<"m","r">>),
      SubStep(Lit(<<"m","r","s",".">>), <<"m","r","s">>),
      SubStep(Lit(<<"m","s",".">>), <<"m","s">>),
      SubStep(Lit(<<"m","i","s","s",".">>), <<"m","i","s","s">>)>>

\* lines 697-706: ellipses, initials, capital-letter abbreviations, decimals
PeriodSteps ==
    <<SubStep(Lit(<<".",".",".">>), <<>>),
      SubStep(Pat("initials"), <<>>),
      SubStep(Pat("capital"), <<" ">>),
      SubStep(Pat("decimal"), <<>>)>>

\* lines 594-709: every statement of process_paragraph up to paragraph.lower()
NormalizerSteps(dt) ==
    MarkupSteps \o CharacterSteps(dt) \o AbbreviationSteps \o PeriodSteps \o <<LowerStep>>

\* lines 594-709: process_paragraph up to and including lowercasing
normalize(p, dt) == run_steps(NormalizerSteps(dt), p)

-----------------------------------------------------------------------------
(* split_paragraph: the Sentence Splitter *)

splitters == {<<".", "\"">>, <<"!", "\"">>, <<"?", "\"">>, <<".">>, <<"!">>, <<"?">>}

\* one pass of the loop of lines 764-779 that emits at the terminator, without it
scan_at_terminator(cur0, c, last) ==
    IF <<c>> \in splitters
    THEN [appended |-> <<strip(cur0)>>, current_line |-> <<>>]
    ELSE IF last /\ Append(cur0, c) # <<"\n">>
    THEN [appended |-> <<Append(cur0, c)>>, current_line |-> Append(cur0, c)]
    ELSE [appended |-> <<>>, current_line |-> Append(cur0, c)]

\* lines 765-779: one pass of the loop on the character c, cur0 being
\* `current_line` before it and last telling whether i == len(paragraph) - 1;
\* appended is what the pass appends to `lines`
scan(cur0, c, last) ==
    LET cur == Append(cur0, c)
        n == Len(cur)
        last_two == IF n >= 2 THEN <<cur[n - 1], cur[n]>> ELSE cur
        before_last == IF n >= 2 THEN <<cur[n - 1]>> ELSE <<>>
    IN  IF last_two \in splitters
        THEN [appended |-> <<strip(cur)>>, current_line |-> <<>>]
        ELSE IF before_last \in splitters
        THEN [appended |-> <<strip(Slice(cur, 1, n - 1))>>, current_line |-> <<>>]
        ELSE IF last /\ cur # <<"\n">>
        THEN [appended |-> <<cur>>, current_line |-> cur]
        ELSE [appended |-> <<>>, current_line |-> cur]

\* the loop of lines 764-779; out is `lines`, cur0 is `current_line` before p[i]
RECURSIVE split_loop(_,_,_,_)
split_loop(p, i, out, cur0) ==
    IF i > Len(p) THEN out
    ELSE LET cur == Append(cur0, p[i])
             n == Len(cur)
             last_two == IF n >= 2 THEN <<cur[n - 1], cur[n]>> ELSE cur
             before_last == IF n >= 2 THEN <<cur[n - 1]>> ELSE <<>>
         IN  \* the first test makes TLC compute out and cur before the next iteration
             IF Len(out) + n < 0 THEN out
             ELSE IF last_two \in splitters
             THEN split_loop(p, i + 1, Append(out, strip(cur)), <<>>)
             ELSE IF before_last \in splitters
             THEN split_loop(p, i + 1, Append(out, strip(Slice(cur, 1, n - 1))), <<>>)
             ELSE IF i = Len(p)
             THEN (IF cur # <<"\n">> THEN Append(out, cur) ELSE out)
             ELSE split_loop(p, i + 1, out, cur)

\* lines 783-784 alone: pad the included punctuation
space_punctuation_uncollapsed(sentence, dt) ==
    translate_include(sentence, punctuation_include(dt))

\* lines 783-786: pad the included punctuation, collapse runs of spaces
space_punctuation(sentence, dt) ==
    re_sub(Pat("spaces"), <<" ">>, translate_include(sentence, punctuation_include(dt)))

split_paragraph(p, dt) ==
    LET raw == split_loop(p, 1, <<>>, <<>>)
    IN  [k \in 1..Len(raw) |-> space_punctuation(raw[k], dt)]

-----------------------------------------------------------------------------
(* process_paragraph: the Document Assembler *)

\* a rejection rule that also drops a sentence of a single token
drop_short_sentence(tokens) ==
    \/ Len(tokens) = 1
    \/ /\ Len(tokens) <= 4
       /\ \E k \in 1..(Len(tokens) - 1) : ~isalpha(tokens[k])

\* lines 729-735: `drop` for a tokenized sentence
drop_sentence(tokens) ==
    /\ Len(tokens) <= 4
    /\ \E k \in 1..(Len(tokens) - 1) : ~isalpha(tokens[k])

\* the loop of lines 720-737
RECURSIVE assemble(_)
assemble(ss) ==
    IF ss = <<>> THEN <<>>
    ELSE LET tokens == split(Head(ss))
         IN  (IF drop_sentence(tokens) THEN <<>> ELSE <<join(<<" ">>, tokens)>>)
             \o assemble(Tail(ss))

\* a return that hands back the list of sentences at every granularity
by_document_type_unjoined(docs, dt) == docs

\* lines 739-743
by_document_type(docs, dt) ==
    IF dt = "sentence" THEN docs ELSE <<join(<<" ">>, docs)>>

\* lines 711-743: process_paragraph from the sentence split on, for the normalized n
documents_of(n, dt) == by_document_type(assemble(split_paragraph(n, dt)), dt)

process_paragraph(p, dt) == documents_of(normalize(p, dt), dt)

-----------------------------------------------------------------------------
(* article.py: Article *)

DigitSeq == <<"0","1","2","3","4","5","6","7","8","9">>

digit_value(c) == (CHOOSE k \in 1..10 : DigitSeq[k] = c) - 1

\* int(s) for a non-empty string of digits
RECURSIVE int_of(_)
int_of(s) ==
    IF Len(s) = 1 THEN digit_value(s[1])
    ELSE 10 * int_of(Slice(s, 1, Len(s) - 1)) + digit_value(s[Len(s)])

\* re.findall(r'\d+', s)[0], or <<>> when s holds no digit
first_digits(s) ==
    LET I == {i \in 1..Len(s) : s[i] \in AsciiDigits}
    IN  IF I = {} THEN <<>> ELSE Slice(s, Min(I), digits_end(s, Min(I)))

TitleOpen == <<"<","t","i","t","l","e",">">>

TitleClose == <<"<","/","t","i","t","l","e",">">>

\* re.search(r"<title>(.+?)</title>", s).group(1), or <<>> when there is no match
title_of(s) ==
    LET I == {i \in 1..Len(s) :
                 /\ StartsWithAt(s, i, TitleOpen)
                 /\ find(s, TitleClose, i + Len(TitleOpen) + 1) # 0}
        i == Min(I)
    IN  IF I = {} THEN <<>>
        ELSE Slice(s, i + Len(TitleOpen), find(s, TitleClose, i + Len(TitleOpen) + 1) - 1)

RedirectPrefix ==
    <<"<","r","e","d","i","r","e","c","t"," ","t","i","t","l","e","=">>

\* the title left by the loop of lines 23-30: that of the last <title> line, None otherwise
RECURSIVE last_title(_)
last_title(data) ==
    IF data = <<>> THEN <<"N","o","n","e">>
    ELSE LET l == strip(data[Len(data)])
         IN  IF startswith(l, TitleOpen) THEN title_of(l)
             ELSE last_title(Slice(data, 1, Len(data) - 1))

\* Article.__init__ raises: data[1] missing or without digits (line 21),
\* or a <title> line the pattern does not match (line 30)
article_raises(data) ==
    \/ Len(data) < 2
    \/ first_digits(data[2]) = <<>>
    \/ \E k \in 1..Len(data) :
           startswith(strip(data[k]), TitleOpen) /\ title_of(strip(data[k])) = <<>>

\* Article(data), for data on which __init__ does not raise
Article(data) ==
    [lines            |-> [k \in 1..Len(data) |-> strip(data[k])],
     is_redirect_page |-> \E k \in 1..Len(data) : startswith(strip(data[k]), RedirectPrefix),
     namespace        |-> int_of(first_digits(data[2])),
     title            |-> last_title(data)]

\* exclusion criteria in which the length test of line 122 stands alone
discard_line_below_100(l) ==
    \/ startswith(l, <<"|">>)
    \/ Len(l) < 100

\* exclusion criteria that stop after the first three tests, lines 62-71
discard_line_first_tests(l) ==
    \/ startswith(l, <<"|">>)
    \/ Len(l) <= 1
    \/ startswith(l, <<"}", "}">>)

\* the exclusion criteria of get_paragraphs, lines 62-130
discard_line(l) ==
    \/ startswith(l, <<"|">>)
    \/ Len(l) <= 1
    \/ startswith(l, <<"}", "}">>)
    \/ startswith(l, <<"<">>) \/ endswith(l, <<">">>)
    \/ startswith(l, <<"=", "=">>) /\ endswith(l, <<"=", "=">>)
    \/ startswith(l, <<"*">>) \/ startswith(l, <<"#">>)
    \/ startswith(l, <<";">>) \/ startswith(l, <<":">>)
    \/ /\ startswith(l, <<"{", "{">>) /\ endswith(l, <<"}", "}">>)
       /\ ~contains(Slice(l, 3, Len(l) - 2), <<"{", "{">>)
       /\ ~contains(Slice(l, 3, Len(l) - 2), <<"}", "}">>)
    \/ startswith(l, <<"!">>)
    \/ /\ startswith(l, <<"[", "[">>)
       /\ \/ endswith(l, <<"]", "]">>)
          \/ endswith(l, <<"]","]","<","/","t","e","x","t",">">>)
    \/ startswith(l, <<"[","[","F","i","l","e",":">>)
    \/ /\ startswith(l, <<"&","l","t",";","m","a","t","h">>)
       /\ endswith(l, <<"/","m","a","t","h","&","g","t",";">>)
    \/ /\ startswith(l, <<"&","l","t",";","r","e","f"," ","n","a","m","e","=">>)
       /\ endswith(l, <<"/","r","e","f","&","g","t",";">>)
    \/ startswith(l, <<"{", "{">>) /\ ~contains(l, <<"}", "}">>)
    \/ /\ startswith(l, <<"&","l","t",";","!","-","-">>)
       /\ endswith(l, <<"-","-","&","g","t",";">>)
    \/ /\ Len(l) < 100
       /\ startswith(l, <<"&","l","t",";">>)
       /\ endswith(l, <<"&","g","t",";">>)
    \/ startswith(l, <<"{", "|">>)
    \/ startswith(l, <<"F","i","l","e",":">>)

\* a loop that puts each kept line in front of the lines kept before it
RECURSIVE keep_lines_newest_first(_)
keep_lines_newest_first(ls) ==
    IF ls = <<>> THEN <<>>
    ELSE keep_lines_newest_first(Tail(ls))
         \o (IF discard_line(Head(ls)) THEN <<>> ELSE <<Head(ls)>>)

\* the loop of lines 53-132
RECURSIVE keep_lines(_)
keep_lines(ls) ==
    IF ls = <<>> THEN <<>>
    ELSE (IF discard_line(Head(ls)) THEN <<>> ELSE <<Head(ls)>>) \o keep_lines(Tail(ls))

\* Article.get_paragraphs() with namespaces = None; "None" stands for a None result
get_paragraphs(article) ==
    IF article.is_redirect_page THEN "None"
    ELSE IF article.namespace # 0 THEN "None"
    ELSE keep_lines(article.lines)

-----------------------------------------------------------------------------
(* extract_documents: the Page State Machine and the writes of one page *)

PageStart == <<"<","p","a","g","e",">">>

PageEnd == <<"<","/","p","a","g","e",">">>

NamespaceOpen == <<"<","n","s",">">>

NamespaceZero == <<"<","n","s",">","0","<","/","n","s",">">>

\* The lines the bz2 file may hold, as read: indented, newline-terminated.
InputLines ==
    {<<" "," ","<","p","a","g","e",">","\n">>,
     <<" "," ","<","/","p","a","g","e",">","\n">>,
     <<" "," "," "," ","<","n","s",">","0","<","/","n","s",">","\n">>,
     <<" "," "," "," ","<","n","s",">","1","<","/","n","s",">","\n">>,
     <<" "," "," "," ","<","r","e","d","i","r","e","c","t"," ","t","i","t","l","e","=","\"","s","\""," ","/",">","\n">>,
     <<"a"," ","b"," ","c"," ","0","."," ","n","o",".","\n">>}

Entry(kind, text) == [kind |-> kind, text |-> text]

\* lines 434-442 and 450-458: the description written first in testing mode
Preamble(md) == IF md = "testing" THEN <<Entry("preamble", <<>>)>> ELSE <<>>

\* lines 509-520: the article header written to both files in testing mode
Header(article, md) ==
    IF md = "testing" THEN <<Entry("header", article.title)>> ELSE <<>>

\* line 525: the list `documents` of each paragraph, in order
paragraph_documents(paragraphs, dt) ==
    [k \in 1..Len(paragraphs) |-> process_paragraph(paragraphs[k], dt)]

\* the concatenation of the lists of ds
RECURSIVE flatten(_)
flatten(ds) == IF ds = <<>> THEN <<>> ELSE Head(ds) \o flatten(Tail(ds))

\* lines 521, 537-538: the article-level document
RECURSIVE article_level_document(_)
article_level_document(ds) ==
    IF ds = <<>> THEN <<>>
    ELSE Head(ds)[1] \o <<" ">> \o marker_paragraph_break \o <<" ">>
         \o article_level_document(Tail(ds))

\* lines 531-534: write(document + '\n'), and a blank line after it in testing mode
RECURSIVE document_writes(_,_)
document_writes(docs, md) ==
    IF docs = <<>> THEN <<>>
    ELSE <<Entry("document", Head(docs))>>
         \o (IF md = "testing" THEN <<Entry("blank", <<>>)>> ELSE <<>>)
         \o document_writes(Tail(docs), md)

\* lines 521-541: the writes to the document store for the paragraphs of one page
paragraph_writes(ds, dt, md) ==
    IF dt \in {"sentence", "paragraph"}
    THEN document_writes(flatten(ds), md)
    ELSE <<Entry("document", article_level_document(ds))>>

\* lines 535, 541
generated(ds, dt) ==
    IF dt \in {"sentence", "paragraph"} THEN Len(flatten(ds)) ELSE 1

\* line 524: write(paragraph + '\n\n')
filtered_writes(paragraphs) == [k \in 1..Len(paragraphs) |-> Entry("paragraph", paragraphs[k])]

\* a flush that leaves what was written in the buffer
flush_deferred(file) == 0

\* line 545: flush() hands every write made so far to the file; the result is
\* the number of writes the file then holds
flush(file) == Len(file)

HistoryUnchanged == UNCHANGED <<paragraph_vars, split_vars, filter_vars, chunk_vars>>

\* the lines of a history step that reads a <page> line
StartFraming ==
    /\ event' = (IF page_open THEN "nested_start" ELSE "start")
    /\ alternating' = (alternating /\ ~page_open)
    /\ page_open' = TRUE
    /\ page_lines' = <<>>
    /\ handed' = <<>> /\ wrote' = <<>>

\* a first branch that leaves the accumulator as it is
StartPageKeepingLines ==
    /\ pc = "reading" /\ nread < MaxStream
    /\ \E raw \in InputLines :
          /\ strip(raw) = PageStart
          /\ line' = strip(raw)
    /\ nread' = nread + 1
    /\ correct_name_space' = "False"
    /\ is_a_redirect' = "False"
    /\ StartFraming
    /\ UNCHANGED <<pc, config_vars, lines, document_storage_file, filtered_data_file,
                   flushed, articles_extracted, documents_generated>>
    /\ HistoryUnchanged

\* a first branch that leaves the redirect flag as it is
StartPageKeepingRedirect ==
    /\ pc = "reading" /\ nread < MaxStream
    /\ \E raw \in InputLines :
          /\ strip(raw) = PageStart
          /\ line' = strip(raw)
    /\ nread' = nread + 1
    /\ lines' = <<>>
    /\ correct_name_space' = "False"
    /\ StartFraming
    /\ UNCHANGED <<pc, config_vars, is_a_redirect, document_storage_file,
                   filtered_data_file, flushed, articles_extracted, documents_generated>>
    /\ HistoryUnchanged

\* line 497: the first branch
StartPage ==
    /\ pc = "reading" /\ nread < MaxStream
    /\ \E raw \in InputLines :
          /\ strip(raw) = PageStart
          /\ line' = strip(raw)
    /\ nread' = nread + 1
    /\ lines' = <<>>
    /\ correct_name_space' = "False"
    /\ is_a_redirect' = "False"
    /\ StartFraming
    /\ UNCHANGED <<pc, config_vars, document_storage_file, filtered_data_file, flushed,
                   articles_extracted, documents_generated>>
    /\ HistoryUnchanged

\* the lines of a history step that reads the line l in some branch other than the first
Framing(l) ==
    /\ event' = (IF l # PageEnd THEN "other"
                 ELSE IF page_open THEN "end" ELSE "stray_end")
    /\ alternating' = (alternating /\ (l = PageEnd => page_open))
    /\ page_open' = (page_open /\ l # PageEnd)
    /\ page_lines' = (IF page_open /\ l # PageEnd THEN Append(page_lines, l) ELSE page_lines)

\* an elif condition that does not test is_a_redirect
EndConditionWithoutRedirect(l) ==
    l = PageEnd /\ correct_name_space = "True"

\* an elif condition that does not test correct_name_space
EndConditionWithoutNamespace(l) ==
    l = PageEnd /\ is_a_redirect = "False"

\* line 501-505: the elif condition holds for the line l
EndCondition(l) ==
    l = PageEnd /\ correct_name_space = "True" /\ is_a_redirect = "False"

\* line 501-505: evaluating the elif condition reads a name that is not bound yet
EndConditionUnbound(l) ==
    /\ l = PageEnd
    /\ \/ correct_name_space = "unbound"
       \/ correct_name_space = "True" /\ is_a_redirect = "unbound"

\* lines 501-505 raising UnboundLocalError
UnboundFlag ==
    /\ pc = "reading" /\ nread < MaxStream
    /\ \E raw \in InputLines :
          /\ EndConditionUnbound(strip(raw))
          /\ line' = strip(raw)
          /\ Framing(strip(raw))
    /\ nread' = nread + 1
    /\ pc' = "raised"
    /\ handed' = <<>> /\ wrote' = <<>>
    /\ UNCHANGED <<config_vars, lines, correct_name_space, is_a_redirect,
                   document_storage_file, filtered_data_file, flushed,
                   articles_extracted, documents_generated>>
    /\ HistoryUnchanged

\* lines 506-553: the page is handed to Article and its documents are written
EndPage ==
    /\ pc = "reading" /\ nread < MaxStream
    /\ \E raw \in InputLines :
          /\ EndCondition(strip(raw))
          /\ line' = strip(raw)
          /\ Framing(strip(raw))
    /\ nread' = nread + 1
    /\ handed' = <<lines>>
    /\ IF article_raises(lines)
       THEN \* line 506 raises
            /\ pc' = "raised"
            /\ wrote' = <<>>
            /\ UNCHANGED <<document_storage_file, filtered_data_file, flushed,
                           articles_extracted, documents_generated>>
       ELSE LET article == Article(lines)
                paragraphs == get_paragraphs(article)
                head == Header(article, mode)
            IN  IF paragraphs = "None"
                THEN \* line 522 raises TypeError, after the header writes
                     /\ pc' = "raised"
                     /\ wrote' = head
                     /\ document_storage_file' = document_storage_file \o head
                     /\ filtered_data_file' = filtered_data_file \o head
                     /\ UNCHANGED <<flushed, articles_extracted, documents_generated>>
                ELSE LET ds == paragraph_documents(paragraphs, document_type)
                         w == head \o paragraph_writes(ds, document_type, mode)
                     IN  /\ wrote' = w
                         /\ document_storage_file' = document_storage_file \o w
                         /\ filtered_data_file' =
                                IF mode = "testing"
                                THEN filtered_data_file \o head \o filtered_writes(paragraphs)
                                ELSE filtered_data_file
                         /\ flushed' = flush(document_storage_file \o w)
                         /\ articles_extracted' = articles_extracted + 1
                         /\ documents_generated' =
                                documents_generated + generated(ds, document_type)
                         \* lines 551-553: break, then the clean-up of lines 564-567
                         /\ pc' = IF mode = "testing"
                                     /\ articles_extracted + 1 >= num_test_articles
                                  THEN "done" ELSE "reading"
    /\ UNCHANGED <<config_vars, lines, correct_name_space, is_a_redirect>>
    /\ HistoryUnchanged

\* lines 554-562: the else branch
OtherLine ==
    /\ pc = "reading" /\ nread < MaxStream
    /\ \E raw \in InputLines :
          LET l == strip(raw)
          IN  /\ l # PageStart
              /\ ~EndCondition(l)
              /\ ~EndConditionUnbound(l)
              /\ line' = l
              /\ lines' = Append(lines, l)
              /\ correct_name_space' =
                     IF startswith(l, NamespaceOpen) /\ l = NamespaceZero
                     THEN "True" ELSE correct_name_space
              /\ is_a_redirect' =
                     IF startswith(l, RedirectPrefix) THEN "True" ELSE is_a_redirect
              /\ Framing(l)
    /\ nread' = nread + 1
    /\ handed' = <<>> /\ wrote' = <<>>
    /\ UNCHANGED <<pc, config_vars, document_storage_file, filtered_data_file, flushed,
                   articles_extracted, documents_generated>>
    /\ HistoryUnchanged

\* the input is exhausted: lines 564-567
EndOfFile ==
    /\ pc = "reading"
    /\ pc' = "done"
    /\ UNCHANGED <<config_vars, stream_vars>>
    /\ HistoryUnchanged

\* the state of extract_documents when its loop starts: lines 428-486
StreamStart ==
    /\ nread = 0
    /\ line = <<>>
    /\ lines = <<>>
    /\ correct_name_space = "unbound"
    /\ is_a_redirect = "unbound"
    /\ document_storage_file = Preamble(mode)
    /\ filtered_data_file = Preamble(mode)
    /\ flushed = 0
    /\ articles_extracted = 0
    /\ documents_generated = 0
    /\ event = "none"
    /\ page_open = FALSE
    /\ page_lines = <<>>
    /\ alternating = TRUE
    /\ handed = <<>>
    /\ wrote = <<>>

\* process_paragraph has not been called
NoParagraph ==
    /\ paragraph = <<>> /\ original = <<>> /\ sentences = <<>> /\ documents = <<>>
    /\ pass_no = 1

Init ==
    /\ pc = "reading"
    /\ document_type \in DocumentTypes
    /\ mode \in {"production", "testing"}
    /\ num_test_articles \in (IF mode = "testing" THEN 1..MaxTestArticles ELSE {0})
    /\ StreamStart
    /\ NoParagraph
    /\ NoSplit /\ NoArticle /\ NoChunks

Next == StartPage \/ UnboundFlag \/ EndPage \/ OtherLine \/ EndOfFile

Spec == Init /\ [][Next]_vars

-----------------------------------------------------------------------------
(* process_paragraph, statement by statement, on one paragraph of a page *)

ParaChars == {"M", "s", ".", " ", "1", "e_acute"}

Paragraphs == UNION {[1..n -> ParaChars] : n \in 0..MaxLen}

\* a paragraph get_paragraphs can return: a stripped line no criterion excludes
PageParagraphs == {p \in Paragraphs : strip(p) = p /\ ~discard_line(p)}

\* line 525: the call
ParaInit ==
    /\ pc = "called"
    /\ document_type \in DocumentTypes
    /\ mode = "production"
    /\ num_test_articles = 0
    /\ StreamStart
    /\ paragraph \in PageParagraphs
    /\ original = paragraph
    /\ sentences = <<>> /\ documents = <<>>
    /\ pass_no = 1
    /\ NoSplit /\ NoArticle /\ NoChunks

\* lines 594-709: the normalizer, up to and including lower()
Normalize ==
    /\ pc = "called"
    /\ paragraph' = normalize(paragraph, document_type)
    /\ pc' = "normalized"
    /\ UNCHANGED <<config_vars, stream_vars, original, sentences, documents, pass_no>>
    /\ UNCHANGED <<split_vars, filter_vars, chunk_vars>>

\* lines 594-709 once more, on the paragraph the first pass returned
Renormalize ==
    /\ pc = "normalized" /\ pass_no = 1
    /\ original' = paragraph
    /\ paragraph' = normalize(paragraph, document_type)
    /\ pass_no' = 2
    /\ UNCHANGED <<pc, config_vars, stream_vars, sentences, documents>>
    /\ UNCHANGED <<split_vars, filter_vars, chunk_vars>>

\* line 713
SplitSentences ==
    /\ pc = "normalized" /\ pass_no = 1
    /\ sentences' = split_paragraph(paragraph, document_type)
    /\ pc' = "split"
    /\ UNCHANGED <<config_vars, stream_vars, paragraph, original, documents, pass_no>>
    /\ UNCHANGED <<split_vars, filter_vars, chunk_vars>>

\* lines 715-743
ReturnDocuments ==
    /\ pc = "split"
    /\ documents' = by_document_type(assemble(sentences), document_type)
    /\ pc' = "returned"
    /\ UNCHANGED <<config_vars, stream_vars, paragraph, original, sentences, pass_no>>
    /\ UNCHANGED <<split_vars, filter_vars, chunk_vars>>

ParaNext == Normalize \/ Renormalize \/ SplitSentences \/ ReturnDocuments

SpecPara == ParaInit /\ [][ParaNext]_vars

-----------------------------------------------------------------------------
(* Properties of the page state machine, stated on Spec *)

HasRedirectLine(ls) == \E k \in 1..Len(ls) : startswith(ls[k], RedirectPrefix)

HasNamespaceZero(ls) == \E k \in 1..Len(ls) : ls[k] = NamespaceZero

\* C1: when a </page> line closes a page that holds a line starting with
\* `<redirect title=`, nothing is written to the document store for that page,
\* whatever the granularity and the mode.
C1_RedirectPageWritesNothing ==
    (event = "end" /\ HasRedirectLine(page_lines)) => wrote = <<>>

\* the end of a page of namespace 0 that holds a redirect line
C1_Witness ==
    /\ event = "end"
    /\ HasRedirectLine(page_lines)
    /\ HasNamespaceZero(page_lines)
    /\ Len(page_lines) >= 2

\* C2: when a </page> line closes a page that holds no line equal to
\* `<ns>0</ns>`, nothing is written for that page and the run does not raise.
C2_OtherNamespaceWritesNothing ==
    (event = "end" /\ ~HasNamespaceZero(page_lines)) =>
        (wrote = <<>> /\ pc # "raised")

\* the end of a page whose namespace line names another namespace
C2_Witness ==
    /\ event = "end"
    /\ ~HasNamespaceZero(page_lines)
    /\ ~HasRedirectLine(page_lines)
    /\ \E k \in 1..Len(page_lines) : startswith(page_lines[k], NamespaceOpen)

\* C3: reading a <page> line while a page is open raises.
C3_NestedStartRaises ==
    event = "nested_start" => pc = "raised"

\* C4: reading a </page> line while no page is open aborts the run and emits
\* no page: no data is handed to Article and nothing is written.
C4_StrayEndAborts ==
    event = "stray_end" => (pc = "raised" /\ handed = <<>> /\ wrote = <<>>)

\* C5: while start and end markers alternate, a </page> line hands the page
\* to Article exactly when a line since its <page> equals `<ns>0</ns>` and none
\* starts with `<redirect title=`, and the data handed over are the stripped
\* lines strictly between the two markers, in order.
C5_AlternatingEmission ==
    (alternating /\ event = "end") =>
        /\ (handed # <<>>) <=>
               (HasNamespaceZero(page_lines) /\ ~HasRedirectLine(page_lines))
        /\ handed # <<>> => handed = <<page_lines>>

\* a page is emitted at its </page> in a stream that has lines before its <page>
C5_Witness ==
    /\ alternating /\ event = "end"
    /\ handed = <<page_lines>>
    /\ Len(page_lines) >= 2
    /\ nread > Len(page_lines) + 2

-----------------------------------------------------------------------------
(* Properties of process_paragraph, stated on SpecPara *)

\* the token consists of the letters A-Z/a-z only
AsciiAlphabetic(token) == \A i \in 1..Len(token) : token[i] \in AsciiLetters

\* C6: no document process_paragraph returns is empty: each holds a token.
C6_NoEmptyDocument ==
    pc = "returned" => \A j \in 1..Len(documents) : split(documents[j]) # <<>>

\* C7: in every document of four or fewer tokens that process_paragraph
\* returns, every token but the last consists of the letters A-Z/a-z only.
C7_ShortDocumentsAlphabetic ==
    pc = "returned" =>
        \A j \in 1..Len(documents) :
            Len(split(documents[j])) <= 4 =>
                \A k \in 1..(Len(split(documents[j])) - 1) :
                    AsciiAlphabetic(split(documents[j])[k])

\* C8, as the spec states it: at sentence granularity no returned document
\* is a sentence of exactly one token.
C8_OneTokenSentenceDropped ==
    (pc = "returned" /\ document_type = "sentence") =>
        \A j \in 1..Len(documents) : Len(split(documents[j])) # 1

\* the sentence s has four or fewer tokens, one of which, not the last, is not alphabetic
ShortAndNoisy(s) ==
    /\ Len(split(s)) <= 4
    /\ \E k \in 1..(Len(split(s)) - 1) : ~isalpha(split(s)[k])

\* the sentences of ss that are not ShortAndNoisy, each rejoined with single spaces
RECURSIVE Survivors(_)
Survivors(ss) ==
    IF ss = <<>> THEN <<>>
    ELSE (IF ShortAndNoisy(Head(ss)) THEN <<>> ELSE <<join(<<" ">>, split(Head(ss)))>>)
         \o Survivors(Tail(ss))

\* C8, amended: at sentence granularity the documents returned are exactly the
\* sentences that are not (four or fewer tokens with a non-alphabetic token
\* before the last), in order; so a sentence of exactly one token is kept.
C8_OneTokenSentenceKept ==
    (pc = "returned" /\ document_type = "sentence") =>
        /\ documents = Survivors(sentences)
        /\ \A k \in 1..Len(sentences) :
               Len(split(sentences[k])) = 1 =>
                   \E j \in 1..Len(documents) : documents[j] = split(sentences[k])[1]

\* a paragraph with a one-token sentence and a sentence that is dropped
C8_Witness ==
    /\ pc = "returned" /\ document_type = "sentence"
    /\ \E k \in 1..Len(sentences) : Len(split(sentences[k])) = 1
    /\ Len(documents) < Len(sentences)

\* C9: a paragraph shorter than 100 characters after the markup statements
\* (lines 594-654) yields no documents.
C9_ShortParagraphYieldsNothing ==
    (pc = "returned" /\ Len(run_steps(MarkupSteps, original)) < 100) =>
        documents = <<>>

\* C10: the normalizer run on its own output returns that output.
C10_NormalizerIdempotent ==
    (pc = "normalized" /\ pass_no = 2) => paragraph = original

-----------------------------------------------------------------------------
(* Properties of the article-level document, stated on Spec *)

\* the number of places of s where p occurs
Occurrences(s, p) == Cardinality({i \in 1..Len(s) : StartsWithAt(s, i, p)})

\* the texts of the document entries among the writes w
RECURSIVE DocumentTexts(_)
DocumentTexts(w) ==
    IF w = <<>> THEN <<>>
    ELSE (IF Head(w).kind = "document" THEN <<Head(w).text>> ELSE <<>>)
         \o DocumentTexts(Tail(w))

\* the number of lines of ls that get_paragraphs keeps
SurvivingLines(ls) == Cardinality({k \in 1..Len(ls) : ~discard_line(strip(ls[k]))})

\* C11: at article granularity, a page of k >= 1 paragraphs that is emitted
\* without raising writes exactly one document, in which the paragraph-break
\* marker occurs k-1 times and which does not end with the marker.
C11_MarkerOnlyBetweenParagraphs ==
    (/\ event = "end" /\ handed # <<>> /\ pc # "raised"
     /\ document_type = "article"
     /\ SurvivingLines(handed[1]) >= 1) =>
        /\ Len(DocumentTexts(wrote)) = 1
        /\ Occurrences(DocumentTexts(wrote)[1], marker_paragraph_break)
               = SurvivingLines(handed[1]) - 1
        /\ ~endswith(strip(DocumentTexts(wrote)[1]), marker_paragraph_break)

-----------------------------------------------------------------------------
(* Properties of the documents process_paragraph returns, stated on SpecPara *)

\* C12: at paragraph granularity process_paragraph returns one string, the
\* sentences that pass the rejection rule, in order, joined by single spaces;
\* at sentence granularity it returns those sentences one by one, in order.
C12_GranularityAssembly ==
    pc = "returned" =>
        /\ document_type = "paragraph" =>
               /\ Len(documents) = 1
               /\ documents[1] = join(<<" ">>, Survivors(sentences))
        /\ document_type = "sentence" => documents = Survivors(sentences)

\* a paragraph returned at paragraph granularity, with two sentences kept and one dropped
C12_Witness ==
    /\ pc = "returned" /\ document_type = "paragraph"
    /\ Len(Survivors(sentences)) >= 2
    /\ Len(sentences) > Len(Survivors(sentences))
    /\ documents[1] # <<>>

\* C13: every document process_paragraph returns is its tokens joined by
\* single spaces (so it has no leading or trailing whitespace and no run of
\* spaces) and holds no uppercase character.
C13_SingleSpacedLowercase ==
    pc = "returned" =>
        \A j \in 1..Len(documents) :
            /\ documents[j] = join(<<" ">>, split(documents[j]))
            /\ \A k \in 1..Len(documents[j]) :
                   documents[j][k] \notin (AsciiUpper \cup NonAsciiUpper)

-----------------------------------------------------------------------------
(* Article(data).get_paragraphs() on the lines of one page *)

\* the number of fragments between the beginning and the end of a line
MaxInner == 2

\* the beginnings the exclusion criteria of lines 62-130 look for
LineOpenings ==
    {<<"|">>,
     <<"!">>,
     <<"{","|">>,
     <<"<">>,
     <<"=","=">>,
     <<"*">>,
     <<"#">>,
     <<";">>,
     <<":">>,
     <<"{","{">>,
     <<"}","}">>,
     <<"[","[">>,
     <<"[","[","F","i","l","e",":">>,
     <<"F","i","l","e",":">>,
     <<"&","l","t",";","m","a","t","h">>,
     <<"&","l","t",";","r","e","f"," ","n","a","m","e","=">>,
     <<"&","l","t",";","!","-","-">>,
     <<"&","l","t",";">>}

\* the endings the exclusion criteria of lines 62-130 look for
LineEndings ==
    {<<">">>,
     <<"=","=">>,
     <<"}","}">>,
     <<"]","]">>,
     <<"]","]","<","/","t","e","x","t",">">>,
     <<"/","m","a","t","h","&","g","t",";">>,
     <<"/","r","e","f","&","g","t",";">>,
     <<"-","-","&","g","t",";">>,
     <<"&","g","t",";">>}

\* what lies between: a letter, a space, the template markers, and a run of
\* 100 letters (line 122 compares the length of a line with 100)
LineInner ==
    {<<"s">>,
     <<" ">>,
     <<"{","{">>,
     <<"}","}">>,
     [k \in 1..100 |-> "s"]}

\* the texts made of n inner fragments
RECURSIVE InnerTexts(_)
InnerTexts(n) ==
    IF n = 0 THEN {<<>>}
    ELSE {t \o f : t \in InnerTexts(n - 1), f \in LineInner \cup {<<>>}}

\* the lines of text of a page
PageLines ==
    {a \o t \o b : a \in LineOpenings \cup {<<>>}, t \in InnerTexts(MaxInner),
                   b \in LineEndings \cup {<<>>}}

ExampleLine == <<"|","a","l","i","g","n","=","\"","l","e","f","t","\"","|"," ","s","o","m","e"," ","t","e","x","t">>

TitleLine == TitleOpen \o <<"s">> \o TitleClose

NamespaceOne == <<"<","n","s",">","1","<","/","n","s",">">>

\* the lines of a page: its title, its namespace, and one line of text as read
PageData ==
    {<<TitleLine, NamespaceZero, <<" ">> \o l \o <<"\n">>>> :
        l \in PageLines \cup {ExampleLine}}
    \cup {<<TitleLine, NamespaceOne, ExampleLine>>}

\* line 506 of generate_corpus.py: Article(lines) is about to be called
FilterInit ==
    /\ pc = "page"
    /\ document_type = "sentence" /\ mode = "production" /\ num_test_articles = 0
    /\ StreamStart /\ NoParagraph /\ NoSplit /\ NoChunks
    /\ article_data \in PageData
    /\ article_paragraphs = <<>>
    /\ paragraph_index = 0

\* lines 506-507 of generate_corpus.py: Article(lines).get_paragraphs()
GetParagraphs ==
    /\ pc = "page"
    /\ IF article_raises(article_data)
       THEN pc' = "raised" /\ UNCHANGED article_paragraphs
       ELSE /\ article_paragraphs' = get_paragraphs(Article(article_data))
            /\ pc' = "filtered"
    /\ UNCHANGED <<config_vars, stream_vars, paragraph_vars, split_vars, chunk_vars,
                   article_data, paragraph_index>>

FilterNext == GetParagraphs

SpecFilter == FilterInit /\ [][FilterNext]_vars


-----------------------------------------------------------------------------
(* Claims about the Paragraph Filter *)

\* the discard predicates 1-14 of the Paragraph Filter as listed, the third
\* one being left open
ListedDiscard(l, closing) ==
    \/ startswith(l, <<"|">>) \/ startswith(l, <<"!">>) \/ startswith(l, <<"{","|">>)
    \/ Len(l) <= 1
    \/ closing
    \/ startswith(l, <<"<">>) \/ endswith(l, <<">">>)
    \/ startswith(l, <<"=","=">>) /\ endswith(l, <<"=","=">>)
    \/ \E c \in {"*", "#", ";", ":"} : startswith(l, <<c>>)
    \/ /\ startswith(l, <<"{","{">>) /\ endswith(l, <<"}","}">>)
       /\ \A k \in 3..(Len(l) - 3) :
            <<l[k], l[k + 1]>> \notin {<<"{","{">>, <<"}","}">>}
    \/ /\ startswith(l, <<"[","[">>)
       /\ \/ endswith(l, <<"]","]">>)
          \/ endswith(l, <<"]","]","<","/","t","e","x","t",">">>)
    \/ startswith(l, <<"[","[","F","i","l","e",":">>)
    \/ /\ startswith(l, <<"&","l","t",";","m","a","t","h">>)
       /\ endswith(l, <<"/","m","a","t","h","&","g","t",";">>)
    \/ /\ startswith(l, <<"&","l","t",";","r","e","f"," ","n","a","m","e","=">>)
       /\ endswith(l, <<"/","r","e","f","&","g","t",";">>)
    \/ /\ startswith(l, <<"{","{">>)
       /\ \A k \in 1..(Len(l) - 1) : <<l[k], l[k + 1]>> # <<"}","}">>
    \/ /\ startswith(l, <<"&","l","t",";","!","-","-">>)
       /\ endswith(l, <<"-","-","&","g","t",";">>)
    \/ /\ Len(l) < 100
       /\ startswith(l, <<"&","l","t",";">>) /\ endswith(l, <<"&","g","t",";">>)
    \/ startswith(l, <<"F","i","l","e",":">>)

\* the lines of the page handed to the filter, stripped
CandidateLines == {strip(article_data[k]) : k \in 1..Len(article_data)}

Kept == {article_paragraphs[k] : k \in 1..Len(article_paragraphs)}

Filtered == pc = "filtered" /\ Article(article_data).namespace = 0

\* C14 as stated: every line matching none of the 14 predicates, the third
\* being "is exactly }}", is returned by get_paragraphs; so a line that begins
\* with }} without being }} and matches no other predicate is returned.
C14_KeepsUnlessExactlyClosing ==
    Filtered =>
        \A l \in CandidateLines :
            ~ListedDiscard(l, l = <<"}","}">>) => l \in Kept

\* C14 amended: every line matching none of the 14 predicates, the third being
\* "starts with }}", is returned by get_paragraphs; a line that begins with }}
\* is discarded whether or not it is exactly }}.
C14_KeepsUnlessStartsWithClosing ==
    Filtered =>
        /\ \A l \in CandidateLines :
            ~ListedDiscard(l, startswith(l, <<"}","}">>)) => l \in Kept
        /\ \A l \in CandidateLines : startswith(l, <<"}","}">>) => l \notin Kept

\* a page with a line that begins with }}, is longer, and matches no other
\* predicate has been filtered
C14_Witness ==
    /\ Filtered
    /\ \E l \in CandidateLines :
        /\ startswith(l, <<"}","}">>) /\ Len(l) > 2
        /\ ~ListedDiscard(l, FALSE)
        /\ l \notin Kept


\* C15: every line returned by get_paragraphs matches none of the 14 listed
\* predicates: it has at least two characters, does not start with |, !, {|,
\* <, *, #, ;, :, [[File: or File:, does not end with >, and is no ==...==
\* header, self-contained template, [[...]] line, {{ opening without }}, or
\* escaped comment, math or ref block.
C15_KeepsNoListedLine ==
    Filtered =>
        \A l \in Kept :
            /\ ~ListedDiscard(l, l = <<"}","}">>)
            /\ Len(l) >= 2
            /\ \A c \in {"|", "!", "<", "*", "#", ";", ":"} : l[1] # c
            /\ l[Len(l)] # ">"

\* the page whose line of text is |align="left"| some text has been filtered
\* and nothing of it is kept
C15_Witness ==
    /\ Filtered
    /\ ExampleLine \in CandidateLines
    /\ ListedDiscard(ExampleLine, FALSE)
    /\ Kept = {}


-----------------------------------------------------------------------------
(* chunk_documents_to_files: the Chunk Writer *)

\* the number of document lines in the store
MaxDocuments == 3

\* the largest documents_per_corpus_file
MaxPerFile == 3

\* the documents the store may hold
StoreDocuments == {<<"s">>, <<"s", " ", "s">>}

\* the stores extract_documents leaves in production mode: one write per document
DocumentStores ==
    UNION {[1..n -> {Entry("document", d) : d \in StoreDocuments}] : n \in 0..MaxDocuments}

\* list(file), line 855: the lines of the store, each with its newline
file_lines(w) == [k \in 1..Len(w) |-> w[k].text \o <<"\n">>]

\* the orders random.shuffle may leave a list in, line 857
shuffles(l) ==
    {[k \in 1..Len(l) |-> l[f[k]]] :
        f \in {g \in [1..Len(l) -> 1..Len(l)] : \A a, b \in 1..Len(l) : g[a] = g[b] => a = b}}

\* l[start:stop] for start >= 0
list_slice(l, start, stop) ==
    LET e == IF stop < 0 THEN (IF Len(l) + stop < 0 THEN 0 ELSE Len(l) + stop)
             ELSE IF stop > Len(l) THEN Len(l) ELSE stop
    IN  Slice(l, start + 1, e)

\* str(n) for n >= 0
RECURSIVE str_int(_)
str_int(n) ==
    IF n < 10 THEN <<DigitSeq[n + 1]>>
    ELSE str_int(n \div 10) \o <<DigitSeq[(n % 10) + 1]>>

\* s.rjust(width, '0')
rjust(s, width) ==
    IF Len(s) >= width THEN s ELSE [k \in 1..(width - Len(s)) |-> "0"] \o s

CorpusFilePrefix == <<"c","o","r","p","u","s","_","f","i","l","e","_">>

\* line 860
num_files == Len(corpus_documents) \div documents_per_corpus_file + 1

\* lines 895-912: the file dump_file leaves, its name without the directory
dump_file(document_list, file_name) ==
    [name |-> file_name \o <<".","b","z","2">>, documents |-> document_list]

\* line 791: chunk_documents_to_files is called on the store of a finished run
ChunkInit ==
    /\ pc = "chunk_called"
    /\ document_type \in DocumentTypes /\ mode = "production" /\ num_test_articles = 0
    /\ nread = 0 /\ line = <<>> /\ lines = <<>>
    /\ correct_name_space = "unbound" /\ is_a_redirect = "unbound"
    /\ document_storage_file \in DocumentStores
    /\ filtered_data_file = <<>>
    /\ flushed = Len(document_storage_file)
    /\ articles_extracted = 0 /\ documents_generated = 0
    /\ event = "none" /\ page_open = FALSE /\ page_lines = <<>> /\ alternating = TRUE
    /\ handed = <<>> /\ wrote = <<>>
    /\ NoParagraph /\ NoSplit /\ NoArticle
    /\ corpus_documents = <<>>
    /\ documents_per_corpus_file \in 1..MaxPerFile
    /\ file_num = 0
    /\ corpus_files = <<>>

ChunkUnchanged ==
    UNCHANGED <<config_vars, stream_vars, paragraph_vars, split_vars, filter_vars>>

\* lines 854-857: load the store and shuffle it
LoadAndShuffle ==
    /\ pc = "chunk_called"
    /\ corpus_documents' \in shuffles(file_lines(document_storage_file))
    /\ pc' = "shuffled"
    /\ UNCHANGED <<documents_per_corpus_file, file_num, corpus_files>>
    /\ ChunkUnchanged

\* lines 864-875: one pass of the loop over range(num_files - 1)
DumpFile ==
    /\ pc = "shuffled"
    /\ file_num < num_files - 1
    /\ LET start == file_num * documents_per_corpus_file
           stop == (file_num + 1) * documents_per_corpus_file
           file_documents == list_slice(corpus_documents, start, stop)
       IN  corpus_files' = Append(corpus_files,
               dump_file(file_documents,
                         CorpusFilePrefix \o rjust(str_int(file_num + 1), 3)
                            \o <<"_","o","f","_">> \o str_int(num_files)))
    /\ file_num' = file_num + 1
    /\ UNCHANGED <<pc, corpus_documents, documents_per_corpus_file>>
    /\ ChunkUnchanged

\* lines 876-887: the last file
DumpLastFile ==
    /\ pc = "shuffled"
    /\ file_num = num_files - 1
    /\ LET file_documents ==
               list_slice(corpus_documents, (num_files - 1) * documents_per_corpus_file, -1)
       IN  corpus_files' = Append(corpus_files,
               dump_file(file_documents,
                         CorpusFilePrefix \o rjust(str_int(num_files), 2)
                            \o <<"_","o","f","_">> \o rjust(str_int(num_files), 2)))
    /\ pc' = "chunked"
    /\ UNCHANGED <<corpus_documents, documents_per_corpus_file, file_num>>
    /\ ChunkUnchanged

ChunkNext == LoadAndShuffle \/ DumpFile \/ DumpLastFile

SpecChunk == ChunkInit /\ [][ChunkNext]_vars


-----------------------------------------------------------------------------
(* Claims about the Chunk Writer *)

\* how many times the line d stands in the list l
CountIn(l, d) == Cardinality({k \in 1..Len(l) : l[k] = d})

RECURSIVE ChunkedDocuments(_)
\* the documents of the chunk files, one file after the other
ChunkedDocuments(files) ==
    IF files = <<>> THEN <<>>
    ELSE Head(files).documents \o ChunkedDocuments(Tail(files))

\* C16: once the Chunk Writer has finished, each document line of the store
\* stands in exactly one chunk, as often as in the store, and the chunk sizes
\* sum to the number of lines of the store.
C16_ChunksPartitionStore ==
    pc = "chunked" =>
        /\ \A k \in 1..Len(document_storage_file) :
            LET d == file_lines(document_storage_file)[k]
            IN  CountIn(ChunkedDocuments(corpus_files), d)
                    = CountIn(file_lines(document_storage_file), d)
        /\ Len(ChunkedDocuments(corpus_files)) = Len(document_storage_file)


-----------------------------------------------------------------------------
(* split_paragraph, one character at a time *)

\* the length of the paragraphs handed to split_paragraph
MaxSplitLen == 4

SplitChars == {"s", ".", "!", "\"", " ", "\n", ","}

\* the paragraphs split_paragraph may be handed at granularity dt: the
\* normalizer has removed the excluded punctuation (lines 703-704)
SplitInputs(dt) ==
    UNION {[1..n -> SplitChars \ punctuation_exclude(dt)] : n \in 0..MaxSplitLen}

\* line 713: split_paragraph is about to scan the normalized paragraph
SplitInit ==
    /\ pc = "split_called"
    /\ document_type \in DocumentTypes /\ mode = "production" /\ num_test_articles = 0
    /\ StreamStart
    /\ paragraph \in SplitInputs(document_type)
    /\ original = paragraph
    /\ sentences = <<>> /\ documents = <<>>
    /\ pass_no = 1
    /\ NoSplit /\ NoArticle /\ NoChunks

\* lines 764-779: one pass of the loop
ScanChar ==
    /\ pc = "split_called"
    /\ split_i < Len(paragraph)
    /\ LET r == scan(current_line, paragraph[split_i + 1], split_i + 1 = Len(paragraph))
       IN  /\ current_line' = r.current_line
           /\ emitted' = r.appended
           /\ split_lines' = split_lines \o r.appended
    /\ split_i' = split_i + 1
    /\ UNCHANGED <<pc, config_vars, stream_vars, paragraph_vars, filter_vars, chunk_vars>>

\* lines 781-788: space the included punctuation of every line and return
SpaceLines ==
    /\ pc = "split_called"
    /\ split_i = Len(paragraph)
    /\ sentences' = [k \in 1..Len(split_lines) |->
                        space_punctuation(split_lines[k], document_type)]
    /\ pc' = "split"
    /\ UNCHANGED <<config_vars, stream_vars, paragraph, original, documents, pass_no,
                   split_vars, filter_vars, chunk_vars>>

SplitNext == ScanChar \/ SpaceLines

SpecSplit == SplitInit /\ [][SplitNext]_vars

\* the passes of the loop, taken one by one, return what split_loop returns
ScanAgreesWithLoop ==
    pc = "split" =>
        /\ split_lines = split_loop(paragraph, 1, <<>>, <<>>)
        /\ sentences = split_paragraph(paragraph, document_type)


-----------------------------------------------------------------------------
(* Claims about the Sentence Splitter *)

Terminators == {".", "!", "?"}

ScanDone == pc = "split_called" /\ split_i = Len(paragraph)

\* C18: when the scan has reached the end of the paragraph, the text after the
\* last emitted sentence, if neither empty nor a lone newline, is the final
\* sentence: the whole paragraph when it holds no terminator, and the last
\* character when it directly follows a terminator (a paragraph ending in .x).
C18_RemainderEmitted ==
    ScanDone =>
        LET n == Len(paragraph)
        IN  /\ (/\ paragraph \notin {<<>>, <<"\n">>}
                /\ \A k \in 1..n : paragraph[k] \notin Terminators)
               => split_lines = <<paragraph>>
            /\ (/\ n >= 2
                /\ paragraph[n - 1] \in Terminators
                /\ paragraph[n] \notin Terminators \cup Whitespace \cup {"\""})
               => /\ split_lines # <<>>
                  /\ split_lines[Len(split_lines)] = <<paragraph[n]>>

\* s with its whitespace removed
RECURSIVE WithoutWhitespace(_)
WithoutWhitespace(s) ==
    IF s = <<>> THEN <<>>
    ELSE (IF Head(s) \in Whitespace THEN <<>> ELSE <<Head(s)>>)
         \o WithoutWhitespace(Tail(s))

\* C19: the sentences emitted by the scan, put together, hold every character
\* of the paragraph that is not whitespace, in order (before the included
\* punctuation is spaced).
C19_NoCharacterLost ==
    ScanDone =>
        WithoutWhitespace(join(<<>>, split_lines)) = WithoutWhitespace(paragraph)

\* C20: in every sentence split_paragraph returns, each character of the
\* included punctuation set stands between spaces or the ends of the sentence,
\* and no two spaces follow one another.
C20_PunctuationSpaced ==
    pc = "split" =>
        \A k \in 1..Len(sentences) :
            LET s == sentences[k]
            IN  /\ \A j \in 1..Len(s) :
                    s[j] \in punctuation_include(document_type) =>
                        /\ j = 1 \/ s[j - 1] = " "
                        /\ j = Len(s) \/ s[j + 1] = " "
                /\ \A j \in 1..(Len(s) - 1) : ~(s[j] = " " /\ s[j + 1] = " ")

\* split_paragraph has returned a sentence of a line that held two included
\* punctuation characters side by side, after a letter
C20_Witness ==
    /\ pc = "split"
    /\ \E k \in 1..Len(sentences) :
        /\ \E j \in 2..(Len(split_lines[k]) - 1) :
            /\ split_lines[k][j - 1] = "s"
            /\ split_lines[k][j] \in punctuation_include(document_type)
            /\ split_lines[k][j + 1] \in punctuation_include(document_type)
        /\ Len(sentences[k]) > Len(split_lines[k])


-----------------------------------------------------------------------------
(* process_paragraph, one group of statements at a time, on paragraphs with *)
(* templates, links and abbreviations                                       *)

\* the number of pipe-separated fragments of a template after its name, and
\* of the tokens of a link
MaxFragments == 4

\* the number of words of a paragraph of abbreviations
MaxWords == 2

ConvertFragments ==
    {<<"5">>,
     <<"t","o">>,
     <<"k","[","m","]">>}

LangFragments ==
    {<<"f","r">>,
     <<"l","'","e","a","u">>,
     <<"x","=","1">>,
     <<"s">>}

LinkTokens ==
    {<<"u">>,
     <<"s">>,
     <<"l","'","e","a","u">>}

AbbreviationWords ==
    {<<"i","t","e","m","s",".">>,
     <<"m","s",".">>,
     <<"f","a","r","m","r",".">>,
     <<"m","r",".">>,
     <<"s",".">>,
     <<"s","s">>}

ConvertOpen == <<"{","{","c","o","n","v","e","r","t","|">>
LangOpen == <<"{","{","l","a","n","g","|">>
SecondConvert == <<" ","{","{","c","o","n","v","e","r","t","|","5","|","t","o","|","5","|","k","m","}","}">>
SecondLang == <<" ","{","{","l","a","n","g","|","f","r","|","s","}","}">>

\* the sequences of 1..n members of S
SeqsUpTo(S, n) == UNION {[1..k -> S] : k \in 1..n}

\* paragraphs with one or two {{convert|...}} templates
ConvertParagraphs ==
    {pre \o ConvertOpen \o join(<<"|">>, frs) \o <<"}","}">> \o post :
        pre \in {<<>>, <<"s"," ">>},
        frs \in SeqsUpTo(ConvertFragments, MaxFragments),
        post \in {<<>>, <<" ","s">>, SecondConvert}}

\* paragraphs with one or two {{lang|...}} templates
LangParagraphs ==
    {pre \o LangOpen \o join(<<"|">>, frs) \o <<"}","}">> \o post :
        pre \in {<<>>, <<"s"," ">>},
        frs \in SeqsUpTo(LangFragments, MaxFragments - 1),
        post \in {<<" ","s">>, SecondLang}}

\* paragraphs with one external link
LinkParagraphs ==
    {pre \o <<"[">> \o join(<<" ">>, ts) \o <<"]">> \o post :
        pre \in {<<>>, <<"s"," ">>},
        ts \in SeqsUpTo(LinkTokens, MaxFragments - 1),
        post \in {<<>>, <<" ","s",".">>}}

\* paragraphs of words that are, or end in, abbreviations of the table
AbbreviationParagraphs ==
    {join(<<" ">>, ws) : ws \in SeqsUpTo(AbbreviationWords, MaxWords)}

\* the lines of these that get_paragraphs hands to process_paragraph
MarkupParagraphs ==
    {p \in ConvertParagraphs \cup LangParagraphs \cup LinkParagraphs
            \cup AbbreviationParagraphs : strip(p) = p /\ ~discard_line(p)}

\* line 526: process_paragraph is called
MarkupInit ==
    /\ pc = "called"
    /\ document_type \in DocumentTypes /\ mode = "production" /\ num_test_articles = 0
    /\ StreamStart
    /\ paragraph \in MarkupParagraphs
    /\ original = paragraph
    /\ sentences = <<>> /\ documents = <<>>
    /\ pass_no = 1
    /\ NoSplit /\ NoArticle /\ NoChunks

\* the statements steps of the normalizer run, up to position to
Statements(to, steps) ==
    /\ paragraph' = run_steps(steps, paragraph)
    /\ pc' = to
    /\ UNCHANGED <<config_vars, stream_vars, original, sentences, documents, pass_no>>
    /\ UNCHANGED <<split_vars, filter_vars, chunk_vars>>

\* lines 594-602
LangTemplates ==
    /\ pc = "called"
    /\ Statements("lang", SubSeq(MarkupSteps, 1, 1))

\* lines 604-621
ConvertTemplates ==
    /\ pc = "lang"
    /\ Statements("convert", SubSeq(MarkupSteps, 2, 2))

\* lines 623-639: transl templates, citations, escaped tags, other templates
OtherTemplates ==
    /\ pc = "convert"
    /\ Statements("templates", SubSeq(MarkupSteps, 3, 8))

\* lines 641-645
InternalLinks ==
    /\ pc = "templates"
    /\ Statements("links", SubSeq(MarkupSteps, 9, 9))

\* lines 646-654
ExternalLinks ==
    /\ pc = "links"
    /\ Statements("elinks", SubSeq(MarkupSteps, 10, 10))

\* lines 656-681
Characters ==
    /\ pc = "elinks"
    /\ Statements("characters", CharacterSteps(document_type))

\* lines 688-696
Abbreviations ==
    /\ pc = "characters"
    /\ Statements("abbreviations", AbbreviationSteps)

\* lines 697-709
PeriodsAndLower ==
    /\ pc = "abbreviations"
    /\ Statements("normalized", PeriodSteps \o <<LowerStep>>)

MarkupNext ==
    \/ LangTemplates \/ ConvertTemplates \/ OtherTemplates \/ InternalLinks
    \/ ExternalLinks \/ Characters \/ Abbreviations \/ PeriodsAndLower
    \/ SplitSentences \/ ReturnDocuments

SpecMarkup == MarkupInit /\ [][MarkupNext]_vars

\* the groups of statements, run one after the other, are the normalizer
StatementsAreNormalize ==
    /\ pc = "normalized" => paragraph = normalize(original, document_type)
    /\ pc = "returned" => documents = process_paragraph(original, document_type)


-----------------------------------------------------------------------------
(* Claims about the Markup Normalizer *)

WithoutBrackets(s) == translate_exclude(s, {"[", "]"})

\* what a {{convert|...}} template with the fragments frs after its name is
\* to be replaced by
ConvertReplacement(frs) ==
    LET value == frs[1]
    IN  IF Len(frs) >= 2 /\ frs[2] \notin ConvertConnectors
        THEN WithoutBrackets(value \o <<" ">> \o frs[2])
        ELSE IF Len(frs) >= 4
        THEN WithoutBrackets(value \o <<" ">> \o frs[4])
        ELSE marker_garbage_processing

\* p from its i-th character on, each {{convert|...}} template replaced
RECURSIVE ConvertsReplaced(_,_)
ConvertsReplaced(p, i) ==
    IF i > Len(p) THEN <<>>
    ELSE LET e == match_end(Span(ConvertOpen, <<"}","}">>), p, i)
         IN  IF e = 0 THEN <<p[i]>> \o ConvertsReplaced(p, i + 1)
             ELSE ConvertReplacement(
                      split_on(Slice(p, i + Len(ConvertOpen), e - 2), "|"))
                  \o ConvertsReplaced(p, e + 1)

\* C21: the conversion statements replace each {{convert|...}} template by
\* value, space, unit (the third fragment, or the fifth when the third is a
\* connector), without square brackets, or by the garbage marker alone when
\* there is no such unit.
C21_ConvertResolved ==
    [][(pc = "lang" /\ pc' = "convert") =>
            paragraph' = ConvertsReplaced(paragraph, 1)]_vars

\* a paragraph with a template without unit and a template whose third
\* fragment is a connector has passed the conversion statements
C21_Witness ==
    /\ pc = "convert"
    /\ contains(original, ConvertOpen \o <<"5","}","}">>)
    /\ contains(original, SecondConvert)
    /\ paragraph = <<"s"," ">> \o marker_garbage_processing \o <<" ","5"," ","k","m">>


\* what a {{lang|...}} template with the fragments frs, its name included, is
\* to be replaced by
LangReplacement(frs) ==
    LET n == Len(frs)
        chosen == IF contains(frs[n], <<"=">>) THEN frs[n - 1] ELSE frs[n]
    IN  translate_exclude(chosen, {"'"})

\* p from its i-th character on, each {{lang|...}} template replaced
RECURSIVE LangsReplaced(_,_)
LangsReplaced(p, i) ==
    IF i > Len(p) THEN <<>>
    ELSE LET e == match_end(Span(LangOpen, <<"}","}">>), p, i)
         IN  IF e = 0 THEN <<p[i]>> \o LangsReplaced(p, i + 1)
             ELSE LangReplacement(split_on(Slice(p, i + 2, e - 2), "|"))
                  \o LangsReplaced(p, e + 1)

\* C22: the language statements replace each {{lang|...}} template by its last
\* fragment, or by the one before it when the last holds an = sign, and the
\* text put in its place holds no straight apostrophe in either case.
C22_LangResolved ==
    [][(pc = "called" /\ pc' = "lang") =>
            paragraph' = LangsReplaced(paragraph, 1)]_vars


\* what an external link with the tokens ts is to be replaced by
LinkReplacement(ts) ==
    IF Len(ts) = 1 THEN ts[1] ELSE join(<<" ">>, Slice(ts, 2, Len(ts)))

\* p from its i-th character on, each [...] link replaced
RECURSIVE LinksReplaced(_,_)
LinksReplaced(p, i) ==
    IF i > Len(p) THEN <<>>
    ELSE LET e == match_end(Span(<<"[">>, <<"]">>), p, i)
         IN  IF e = 0 THEN <<p[i]>> \o LinksReplaced(p, i + 1)
             ELSE LinkReplacement(split(Slice(p, i + 1, e - 1)))
                  \o LinksReplaced(p, e + 1)

\* C23: the external-link statements replace each [...] by its token when it
\* holds one, and by its tokens after the first when it holds several, as
\* plain text: no bracket, quote or comma is added.
C23_LinkResolved ==
    [][(pc = "links" /\ pc' = "elinks") =>
            /\ paragraph' = LinksReplaced(paragraph, 1)
            /\ \A c \in {"[", "]", "'", "\"", ","} :
                Occurrences(paragraph', <<c>>) <= Occurrences(paragraph, <<c>>)]_vars


\* the abbreviations of the table that end a word
TableAbbreviations ==
    {<<"e",".","g",".">>, <<"i",".","e",".">>, <<"e","t","c",".">>, <<"a","l",".">>,
     <<"m","r",".">>, <<"m","r","s",".">>, <<"m","s",".">>, <<"m","i","s","s",".">>}

\* t is a word of letters ending in a period, and no abbreviation of the table
OtherWordWithPeriod(t) ==
    /\ Len(t) >= 2 /\ t[Len(t)] = "."
    /\ \A k \in 1..(Len(t) - 1) : t[k] \in AsciiLetters
    /\ t \notin TableAbbreviations

\* C24: the abbreviation statements leave in place the period of every word
\* that is no abbreviation of the table, also when the word ends in the letters
\* of one (items., farmr.).
C24_OnlyAbbreviationsRewritten ==
    [][(pc = "characters" /\ pc' = "abbreviations") =>
            \A k \in 1..Len(split(paragraph)) :
                OtherWordWithPeriod(split(paragraph)[k]) =>
                    /\ k <= Len(split(paragraph'))
                    /\ split(paragraph')[k] = split(paragraph)[k]]_vars


-----------------------------------------------------------------------------
(* Further properties of the page state machine, stated on Spec *)

\* C25: the end of a page that holds a <ns>0</ns> line and no redirect line
\* is processed without raising, wherever the namespace line sits, whatever
\* the second line of the page is, and however few lines the page has.
C25_EmittedPageDoesNotRaise ==
    (/\ alternating /\ event = "end"
     /\ HasNamespaceZero(page_lines) /\ ~HasRedirectLine(page_lines))
        => pc # "raised"


PageDocuments(ls, dt) ==
    IF ~(HasNamespaceZero(ls) /\ ~HasRedirectLine(ls)) THEN <<>>
    ELSE IF article_raises(ls) THEN <<>>
    ELSE IF Article(ls).namespace # 0 THEN <<>>
    ELSE LET ds == paragraph_documents(keep_lines(Article(ls).lines), dt)
         IN  IF dt = "article" THEN <<article_level_document(ds)>> ELSE flatten(ds)

\* C27: at the end marker of a page, whether the page is handed to Article
\* and the documents written for it are determined by the lines since the
\* page's own start marker and the granularity, whatever was read before that
\* marker.
C27_PageDeterminesDocuments ==
    event = "end" =>
        /\ (handed # <<>>) <=> (HasNamespaceZero(page_lines) /\ ~HasRedirectLine(page_lines))
        /\ handed # <<>> => handed = <<page_lines>>
        /\ DocumentTexts(wrote) = PageDocuments(page_lines, document_type)

\* the documents of a page have been written in a stream that holds a line
\* before the page's start marker
C27_Witness ==
    /\ event = "end"
    /\ nread = Len(page_lines) + 3
    /\ handed = <<page_lines>>
    /\ DocumentTexts(wrote) # <<>>
    /\ DocumentTexts(wrote) = PageDocuments(page_lines, document_type)

\* the writes to the document store that no flush has covered yet
Unflushed == SubSeq(document_storage_file, flushed + 1, Len(document_storage_file))

\* C28: the step that reads the </page> of an emitted page and goes on appends
\* all of that page's documents to the document store and flushes the store, so
\* they are written and flushed before the next line is read; no step that
\* emits no page writes to the store, and no document is ever left unflushed
\* when a later line is read, so no document of a later page is written before
\* the flush of an earlier page.
C28_PageFlushedBeforeNextLine ==
    /\ [](DocumentTexts(Unflushed) = <<>>)
    /\ [][(nread' = nread + 1 /\ handed' # <<>> /\ pc' # "raised") =>
              /\ document_storage_file' = document_storage_file \o wrote'
              /\ DocumentTexts(wrote') = PageDocuments(lines, document_type)
              /\ flushed' = Len(document_storage_file')]_vars
    /\ [][(handed' = <<>> \/ nread' = nread) =>
              document_storage_file' = document_storage_file]_vars

\* a second emission has appended its documents behind those of the first, and
\* the flush covers both
C28_Witness ==
    /\ pc = "reading"
    /\ handed # <<>>
    /\ DocumentTexts(wrote) # <<>>
    /\ Len(DocumentTexts(document_storage_file)) > Len(DocumentTexts(wrote))
    /\ flushed = Len(document_storage_file)

-----------------------------------------------------------------------------
(* The branch of lines 506-547 of extract_documents, statement by statement, *)
(* for one page at sentence or paragraph granularity                         *)

\* the number of lines of text of a page
MaxBody == 3

\* lines of text: two sentences, one sentence, a sentence the assembler drops
\* before one it keeps, a heading and a list item
OrderTexts ==
    {<<"b","."," ","a",".">>,
     <<"c"," ","d","!">>,
     <<"a",","," ","b","."," ","c",".">>,
     <<"=","="," ","s"," ","=","=">>,
     <<"*","s">>}

\* the accumulator at line 506: the stripped lines of a page of namespace 0
OrderPages ==
    {<<TitleLine, NamespaceZero>> \o b :
        b \in UNION {[1..k -> OrderTexts] : k \in 0..MaxBody}}

\* the document store before the page: empty, or holding the document of an
\* earlier page
EarlierStores == {<<>>, <<Entry("document", <<"s","s">>)>>}

\* line 505 has just held for the </page> line of the page
OrderInit ==
    /\ pc = "page"
    /\ document_type \in {"sentence", "paragraph"}
    /\ mode = "production" /\ num_test_articles = 0
    /\ article_data \in OrderPages
    /\ article_paragraphs = <<>> /\ paragraph_index = 0
    /\ nread = Len(article_data) + 2
    /\ line = PageEnd
    /\ lines = article_data
    /\ correct_name_space = "True" /\ is_a_redirect = "False"
    /\ document_storage_file \in EarlierStores
    /\ filtered_data_file = <<>>
    /\ flushed = Len(document_storage_file)
    /\ articles_extracted = Len(document_storage_file)
    /\ documents_generated = Len(document_storage_file)
    /\ event = "end" /\ page_open = FALSE /\ page_lines = article_data
    /\ alternating = TRUE
    /\ handed = <<article_data>> /\ wrote = <<>>
    /\ NoParagraph /\ NoSplit /\ NoChunks

\* lines 522 and 525: the loop takes the next paragraph and process_paragraph
\* normalizes it (lines 594-709) up to the call of split_paragraph
NextParagraph ==
    /\ pc = "filtered"
    /\ paragraph_index < Len(article_paragraphs)
    /\ paragraph_index' = paragraph_index + 1
    /\ original' = article_paragraphs[paragraph_index + 1]
    /\ paragraph' = normalize(article_paragraphs[paragraph_index + 1], document_type)
    /\ sentences' = <<>> /\ documents' = <<>>
    /\ split_i' = 0 /\ current_line' = <<>> /\ split_lines' = <<>> /\ emitted' = <<>>
    /\ pc' = "split_called"
    /\ UNCHANGED <<config_vars, stream_vars, pass_no, article_data, article_paragraphs,
                   chunk_vars>>

\* lines 530-535: the documents of the paragraph are written, in list order
WriteDocuments ==
    /\ pc = "returned"
    /\ document_type \in {"sentence", "paragraph"}
    /\ wrote' = wrote \o document_writes(documents, mode)
    /\ document_storage_file' = document_storage_file \o document_writes(documents, mode)
    /\ documents_generated' = documents_generated + Len(documents)
    /\ pc' = "filtered"
    /\ UNCHANGED <<config_vars, nread, line, lines, correct_name_space, is_a_redirect,
                   filtered_data_file, flushed, articles_extracted,
                   event, page_open, page_lines, alternating, handed>>
    /\ UNCHANGED <<paragraph_vars, split_vars, filter_vars, chunk_vars>>

\* lines 539-547 when the test of line 539 fails: the flush and the count
FlushPage ==
    /\ pc = "filtered"
    /\ paragraph_index = Len(article_paragraphs)
    /\ document_type \in {"sentence", "paragraph"}
    /\ flushed' = flush(document_storage_file)
    /\ articles_extracted' = articles_extracted + 1
    /\ pc' = "reading"
    /\ UNCHANGED <<config_vars, nread, line, lines, correct_name_space, is_a_redirect,
                   document_storage_file, filtered_data_file, documents_generated,
                   event, page_open, page_lines, alternating, handed, wrote>>
    /\ UNCHANGED <<paragraph_vars, split_vars, filter_vars, chunk_vars>>

OrderNext ==
    \/ GetParagraphs \/ NextParagraph \/ ScanChar \/ SpaceLines \/ ReturnDocuments
    \/ WriteDocuments \/ FlushPage

SpecOrder == OrderInit /\ [][OrderNext]_vars

\* the statements, taken one by one, write what EndPage writes in one step
OrderAgreesWithEndPage ==
    (pc = "reading" /\ paragraph_index = Len(article_paragraphs)) =>
        LET ds == paragraph_documents(get_paragraphs(Article(article_data)), document_type)
        IN  /\ wrote = paragraph_writes(ds, document_type, mode)
            /\ flushed = Len(document_storage_file)
            /\ documents_generated =
                   Len(document_storage_file) - Len(wrote) + generated(ds, document_type)

-----------------------------------------------------------------------------
(* Order of the documents, stated on SpecOrder *)

\* s is the beginning of t
IsPrefix(s, t) == Len(s) <= Len(t) /\ SubSeq(t, 1, Len(s)) = s

\* the j-th smallest member of the set S of numbers
NthOf(S, j) == CHOOSE k \in S : Cardinality({m \in S : m < k}) = j - 1

\* the members of s at the positions in K, in the order of their positions
SubsequenceAt(s, K) == [j \in 1..Cardinality(K) |-> s[NthOf(K, j)]]

\* the positions of the lines of ls that get_paragraphs keeps
SurvivingPositions(ls) == {k \in 1..Len(ls) : ~discard_line(ls[k])}

\* the positions of the sentences of ss that the assembler keeps
KeptPositions(ss) == {k \in 1..Len(ss) : ~drop_sentence(split(ss[k]))}

\* C29: documents reach the document store in source order.  The store only
\* grows at its end, so the documents of an earlier page stay in front of
\* those of a later page.  get_paragraphs returns the surviving lines of the
\* page at increasing positions; the loop takes them one after the other and
\* appends the documents of each to the store in list order.  Within a
\* paragraph the scan moves left to right: the buffer is the stretch of the
\* paragraph that ends at the scan position, a sentence is made of the buffer
\* and the character just read and is appended behind the earlier ones, and
\* spacing and assembling keep that order.
C29_SourceOrder ==
    /\ [][IsPrefix(document_storage_file, document_storage_file')]_vars
    /\ [](pc # "page" =>
            article_paragraphs = SubsequenceAt(article_data, SurvivingPositions(article_data)))
    /\ [][paragraph_index' # paragraph_index =>
              /\ paragraph_index' = paragraph_index + 1
              /\ original' = article_paragraphs[paragraph_index']]_vars
    /\ [][wrote' # wrote =>
              /\ IsPrefix(wrote, wrote')
              /\ DocumentTexts(SubSeq(wrote', Len(wrote) + 1, Len(wrote'))) = documents
              /\ document_storage_file' =
                     document_storage_file \o SubSeq(wrote', Len(wrote) + 1, Len(wrote'))]_vars
    /\ [](pc = "split_called" =>
            current_line = Slice(paragraph, split_i - Len(current_line) + 1, split_i))
    /\ [][split_i' = split_i + 1 =>
              /\ split_lines' = split_lines \o emitted'
              /\ emitted' # <<>> =>
                     LET cur == Append(current_line, paragraph[split_i'])
                     IN  emitted' \in {<<strip(cur)>>, <<strip(current_line)>>, <<cur>>}]_vars
    /\ [](pc = "split" =>
            /\ Len(sentences) = Len(split_lines)
            /\ \A k \in 1..Len(sentences) :
                   sentences[k] = space_punctuation(split_lines[k], document_type))
    /\ [](pc = "returned" =>
            LET kept == SubsequenceAt(sentences, KeptPositions(sentences))
                docs == [j \in 1..Len(kept) |-> join(<<" ">>, split(kept[j]))]
            IN  documents = IF document_type = "sentence" THEN docs
                            ELSE <<join(<<" ">>, docs)>>)

\* a page whose heading is discarded between two surviving lines: behind the
\* document of an earlier page, the two sentences of the first line in their
\* order, then the sentence the assembler keeps of the second line
C29_Witness ==
    /\ pc = "reading"
    /\ document_type = "sentence"
    /\ Len(article_data) = 5
    /\ article_paragraphs = <<article_data[3], article_data[5]>>
    /\ discard_line(article_data[4])
    /\ DocumentTexts(document_storage_file) =
           <<<<"s","s">>, <<"b"," ",".">>, <<"a"," ",".">>, <<"c"," ",".">>>>
    /\ DocumentTexts(wrote) = <<<<"b"," ",".">>, <<"a"," ",".">>, <<"c"," ",".">>>>
    /\ flushed = Len(document_storage_file)

-----------------------------------------------------------------------------
(* Sizes of the chunk files, stated on SpecChunk *)

\* C30: once chunk_documents_to_files has finished, every chunk file but the
\* last holds exactly documents_per_corpus_file documents and the last holds
\* at least one and at most documents_per_corpus_file documents.
C30_ChunkSizes ==
    pc = "chunked" =>
        /\ \A k \in 1..(Len(corpus_files) - 1) :
               Len(corpus_files[k].documents) = documents_per_corpus_file
        /\ Len(corpus_files[Len(corpus_files)].documents) >= 1
        /\ Len(corpus_files[Len(corpus_files)].documents) <= documents_per_corpus_file

====
